---- MODULE Spec2Model ----
(***************************************************************************)
(* A model of gcc/rust/backend/rust-compile-context.h:                     *)
(*   - Rust::Compile::Context, the lowering context (caches, the scope     *)
(*     stack with its pending statement lists, the function stack, the     *)
(*     top-level declaration lists);                                       *)
(*   - Rust::Compile::TyTyResolveCompile;                                  *)
(*   - Rust::Resolver::TypeCheckExpr, the expression type checker.         *)
(*                                                                         *)
(* The code checks none of its vector accesses.  back () and pop_back ()   *)
(* on an empty std::vector are undefined behaviour; the model gives such a *)
(* call two outcomes: the process dies (status "crashed"), or it goes on   *)
(* with whatever lies before the buffer (status "undefined"), the end      *)
(* pointer moved one element below the start.  A detected violation        *)
(* (rust_assert, gcc_unreachable, rust_fatal_error) is status "fatal".     *)
(* In all three the run is over: no action is enabled any more.            *)
(***************************************************************************)
EXTENDS Integers, Sequences, FiniteSets, TLC

\* ------------------------------------------------------------------ bounds
MaxDepth == 2       \* open blocks
MaxStmts == 2       \* pending statements of one block
MaxFnDepth == 2     \* open function activations
MaxDecls == 2       \* entries of one top-level declaration list
MaxBlockOps == 6    \* calls in a run of SpecBlocks
MaxFnOps == 4       \* calls in a run of SpecFn
MaxCacheOps == 3    \* calls in a run of SpecCache
MaxDeclOps == 4     \* calls in a run of SpecDecls
MaxOps == 3         \* calls in a run of Spec
MaxTcOps == 2       \* Resolve calls in a run of SpecTc
MaxCompileOps == 3  \* calls in a run of SpecCompile
MaxCapacity == 2    \* capacity of an array type handed to compile

\* ------------------------------------------------------------------ values
Bblocks == {"b1", "b2"}
Bstatements == {"s1", "s2"}
Bfunctions == {"f1", "f2"}
Bvariables == {"x1", "x2"}
Bexpressions == {"e1", "e2"}
BuiltinNames == {"bool", "i32"}
Btypes == {"t1", "t2"}
HirIds == {1, 2, 3}
CacheNames == {"type", "fn", "var", "const"}

None == "none"          \* no value: a void return, nullptr
Garbage == "garbage"    \* whatever an out-of-bounds read yields
Never == "never"        \* history: no insertion yet

VARIABLES
  status,              \* "running" | "fatal" | "crashed" | "undefined"
  builtins,            \* resolver->get_builtin_types ()
  tyctx_known,         \* the builtins the type-check context has a type for
  fn_stack, fn_under,
  compiled_var_decls, compiled_type_map, compiled_fn_map, compiled_consts,
  statements, stmts_under,
  scope_stack, scope_under,
  type_decls, var_decls, const_decls, func_decls,
  wild,                \* statements written through a dangling back ()
  backend_out,         \* the backend calls the last operation made
  ret,                 \* the last operation, its argument and its result
  g_frames,            \* history: per open block, what was added since
  g_popped,            \* history: the frame of the last block popped
  g_last,              \* history: per cache and id, the last value inserted
  g_pushed,            \* history: the functions passed to push_function
  nops, budget         \* calls made, calls allowed in this run

cachevars == <<compiled_var_decls, compiled_type_map, compiled_fn_map,
               compiled_consts, g_last>>
blockvars == <<statements, stmts_under, scope_stack, scope_under, wild,
               g_frames, g_popped>>
fnvars == <<fn_stack, fn_under>>
declvars == <<type_decls, var_decls, const_decls, func_decls, g_pushed>>
envvars == <<builtins, tyctx_known>>
ctxvars == <<status, envvars, fnvars, cachevars, blockvars, declvars,
             backend_out, ret>>

\* the type checker: TypeCheckExpr and the tables it reads and writes
VARIABLES
  prog,          \* the input: the kind of the left and right leaves, the
                 \* return type on top of the checker's return-type stack
  resolved,      \* TypeCheckContext: node identity -> type
  lit_type,      \* per literal node, its LitType (visit may set it)
  tc_status,     \* "running" | "fatal" | "crashed" | "undefined"
  tc_out,        \* the last Resolve call: arguments, result, diagnostics
  g_first        \* history: per call, the records after its first return

tcvars == <<prog, resolved, lit_type, tc_status, tc_out, g_first>>

vars == <<ctxvars, tcvars, nops, budget>>

\* ----------------------------------------------------------------- helpers
\* std::map: operator[] assignment and find
MapPutKeep(m, k, v) ==
  [x \in (DOMAIN m) \cup {k} |-> IF x \in DOMAIN m THEN m[x] ELSE v]

MapPut(m, k, v) == [x \in (DOMAIN m) \cup {k} |-> IF x = k THEN v ELSE m[x]]

MapFind(m, k) ==
  IF k \in DOMAIN m THEN [found |-> TRUE, value |-> m[k]]
  ELSE [found |-> FALSE, value |-> None]

\* std::vector
Back(v) == v[Len(v)]
PopBack(v) == SubSeq(v, 1, Len(v) - 1)

\* size () of a vector whose end pointer was moved `under` elements below
\* its start by pop_back () on an empty vector
Depth(v, under) == Len(v) - under

Tick == /\ nops < budget
        /\ nops' = nops + 1
        /\ budget' = budget

\* a call on the Context leaves the type checker's tables alone
CtxTick == Tick /\ UNCHANGED tcvars

Result(op, arg, val) == [op |-> op, arg |-> arg, val |-> val]

\* --------------------------------------------------------------- Context ()
\* the HirId the type-check context keeps a builtin's type under
BuiltinRef(name) ==
  CASE name = "bool" -> 1 [] name = "i32" -> 2 [] name = "i8" -> 3
    [] name = "i16" -> 4 [] name = "i64" -> 5 [] name = "i128" -> 6
    [] name = "u8" -> 7 [] name = "u16" -> 8 [] name = "u32" -> 9
    [] name = "u64" -> 10 [] name = "u128" -> 11 [] name = "f32" -> 12
    [] name = "f64" -> 13

\* TyTyCompile::compile (backend, lookup) of a builtin
TyTyCompile(name) ==
  CASE name = "bool" -> "bt_bool" [] name = "i32" -> "bt_i32" [] OTHER -> "bt_num"

RECURSIVE SeedBuiltins(_, _)
SeedBuiltinsOne(todo, map) ==
  IF todo = {} THEN map
  ELSE LET b == CHOOSE x \in todo : TRUE
       IN MapPut(map, BuiltinRef(b), TyTyCompile(b))

SeedBuiltins(todo, map) ==
  IF todo = {} THEN map
  ELSE LET b == CHOOSE x \in todo : TRUE
       IN SeedBuiltins(todo \ {b}, MapPut(map, BuiltinRef(b), TyTyCompile(b)))

\* the rust_asserts of the constructor's loop
ConstructionAsserts(bs, known) == bs \subseteq known

Context(bs, known) ==
  /\ builtins = bs
  /\ tyctx_known = known
  /\ status = IF ConstructionAsserts(bs, known) THEN "running" ELSE "fatal"
  /\ compiled_type_map =
       IF ConstructionAsserts(bs, known) THEN SeedBuiltins(bs, <<>>) ELSE <<>>
  /\ compiled_var_decls = <<>>
  /\ compiled_fn_map = <<>>
  /\ compiled_consts = <<>>
  /\ g_last = [c \in CacheNames |-> [id \in HirIds |->
       IF /\ c = "type"
          /\ ConstructionAsserts(bs, known)
          /\ \E b \in bs : BuiltinRef(b) = id
       THEN TyTyCompile(CHOOSE b \in bs : BuiltinRef(b) = id)
       ELSE Never]]
  /\ fn_stack = <<>> /\ fn_under = 0
  /\ statements = <<>> /\ stmts_under = 0
  /\ scope_stack = <<>> /\ scope_under = 0
  /\ type_decls = <<>> /\ var_decls = <<>>
  /\ const_decls = <<>> /\ func_decls = <<>>
  /\ wild = {}
  /\ backend_out = <<>>
  /\ ret = Result("Context", None, None)
  /\ g_frames = <<>>
  /\ g_popped = None
  /\ g_pushed = {}
  /\ nops = 0

\* ------------------------------------------------------------------ caches
lookup_compiled_types(id) == MapFind(compiled_type_map, id)
lookup_var_decl(id) == MapFind(compiled_var_decls, id)
lookup_function_decl(id) == MapFind(compiled_fn_map, id)
lookup_const_decl(id) == MapFind(compiled_consts, id)

Inserted(c, id, v) ==
  /\ g_last' = [g_last EXCEPT ![c][id] = v]
  /\ backend_out' = <<>>
  /\ ret' = Result("insert", <<c, id>>, None)
  /\ UNCHANGED <<status, envvars, fnvars, blockvars, declvars>>

insert_compiled_type(id, type) ==
  /\ status = "running" /\ CtxTick
  /\ compiled_type_map' = MapPut(compiled_type_map, id, type)
  /\ UNCHANGED <<compiled_var_decls, compiled_fn_map, compiled_consts>>
  /\ Inserted("type", id, type)

insert_var_decl(id, decl) ==
  /\ status = "running" /\ CtxTick
  /\ compiled_var_decls' = MapPut(compiled_var_decls, id, decl)
  /\ UNCHANGED <<compiled_type_map, compiled_fn_map, compiled_consts>>
  /\ Inserted("var", id, decl)

insert_function_decl(id, fn) ==
  /\ status = "running" /\ CtxTick
  /\ compiled_fn_map' = MapPut(compiled_fn_map, id, fn)
  /\ UNCHANGED <<compiled_type_map, compiled_var_decls, compiled_consts>>
  /\ Inserted("fn", id, fn)

insert_const_decl(id, expr) ==
  /\ status = "running" /\ CtxTick
  /\ compiled_consts' = MapPut(compiled_consts, id, expr)
  /\ UNCHANGED <<compiled_type_map, compiled_var_decls, compiled_fn_map>>
  /\ Inserted("const", id, expr)

\* ------------------------------------------------------------- scope stack
\* statements.push_back ({})
push_block_statements_missing == statements

push_block_statements == Append(statements, <<>>)

push_block(scope) ==
  /\ status = "running" /\ CtxTick
  /\ Len(scope_stack) < MaxDepth
  /\ scope_stack' = Append(scope_stack, scope)
  /\ statements' = push_block_statements
  /\ g_frames' = Append(g_frames, [block |-> scope, own |-> <<>>, since |-> <<>>])
  /\ backend_out' = <<>>
  /\ ret' = Result("push_block", scope, None)
  /\ UNCHANGED <<status, envvars, fnvars, cachevars, declvars, stmts_under,
                 scope_under, wild, g_popped>>

BlockAddStatements(block, stmts) ==
  [call |-> "block_add_statements", block |-> block, stmts |-> stmts]

pop_block ==
  /\ status = "running" /\ CtxTick
  /\ \/ /\ scope_stack # <<>> /\ statements # <<>>
        /\ scope_stack' = PopBack(scope_stack)
        /\ statements' = PopBack(statements)
        /\ backend_out' = <<BlockAddStatements(Back(scope_stack), Back(statements))>>
        /\ ret' = Result("pop_block", None, Back(scope_stack))
        /\ g_popped' = Back(g_frames)
        /\ g_frames' = PopBack(g_frames)
        /\ UNCHANGED <<status, stmts_under, scope_under, wild>>
     \/ \* back () of an empty vector: the process dies ...
        /\ scope_stack = <<>> \/ statements = <<>>
        /\ status' = "crashed"
        /\ backend_out' = <<>>
        /\ ret' = Result("pop_block", None, None)
        /\ UNCHANGED blockvars
     \/ \* ... or goes on with what lies before the buffers
        /\ scope_stack = <<>> \/ statements = <<>>
        /\ status' = "undefined"
        /\ scope_under' = scope_under + 1
        /\ stmts_under' = stmts_under + 1
        /\ backend_out' = <<BlockAddStatements(Garbage, <<Garbage>>)>>
        /\ ret' = Result("pop_block", None, Garbage)
        /\ UNCHANGED <<scope_stack, statements, wild, g_frames, g_popped>>
  /\ UNCHANGED <<envvars, fnvars, cachevars, declvars>>

peek_enclosing_scope ==
  /\ status = "running" /\ CtxTick
  /\ ret' = Result("peek_enclosing_scope", None,
                   IF Len(scope_stack) = 0 THEN None ELSE Back(scope_stack))
  /\ backend_out' = <<>>
  /\ UNCHANGED <<status, envvars, fnvars, cachevars, blockvars, declvars>>

\* statements.back ().push_back (stmt)
add_statement_outermost(stmt) == [statements EXCEPT ![1] = Append(@, stmt)]

add_statement_all(stmt) ==
  [i \in 1..Len(statements) |-> Append(statements[i], stmt)]

add_statement_back(stmt) ==
  [statements EXCEPT ![Len(statements)] = Append(@, stmt)]

add_statement(stmt) ==
  /\ status = "running" /\ CtxTick
  /\ \/ /\ statements # <<>>
        /\ Len(Back(statements)) < MaxStmts
        /\ statements' = add_statement_back(stmt)
        /\ g_frames' = [i \in 1..Len(g_frames) |->
             [g_frames[i] EXCEPT
                !.since = Append(@, stmt),
                !.own = IF i = Len(g_frames) THEN Append(@, stmt) ELSE @]]
        /\ UNCHANGED <<status, wild>>
     \/ \* back () of an empty vector: the process dies ...
        /\ statements = <<>>
        /\ status' = "crashed"
        /\ UNCHANGED <<statements, wild, g_frames>>
     \/ \* ... or the statement lands in what lies before the buffer
        /\ statements = <<>>
        /\ status' = "undefined"
        /\ wild' = wild \cup {stmt}
        /\ UNCHANGED <<statements, g_frames>>
  /\ backend_out' = <<>>
  /\ ret' = Result("add_statement", stmt, None)
  /\ UNCHANGED <<envvars, fnvars, cachevars, declvars, stmts_under,
                 scope_stack, scope_under, g_popped>>

\* ---------------------------------------------------------- function stack
fncontext(fn, ret_addr) == [fndecl |-> fn, ret_addr |-> ret_addr]

push_fn(fn, ret_addr) ==
  /\ status = "running" /\ CtxTick
  /\ Len(fn_stack) < MaxFnDepth
  /\ fn_stack' = Append(fn_stack, fncontext(fn, ret_addr))
  /\ backend_out' = <<>>
  /\ ret' = Result("push_fn", <<fn, ret_addr>>, None)
  /\ UNCHANGED <<status, envvars, fn_under, cachevars, blockvars, declvars>>

pop_fn ==
  /\ status = "running" /\ CtxTick
  /\ \/ /\ fn_stack # <<>>
        /\ fn_stack' = PopBack(fn_stack)
        /\ UNCHANGED <<status, fn_under>>
     \/ \* pop_back () of an empty vector: the process dies ...
        /\ fn_stack = <<>>
        /\ status' = "crashed"
        /\ UNCHANGED <<fn_stack, fn_under>>
     \/ \* ... or the end pointer moves below the start
        /\ fn_stack = <<>>
        /\ status' = "undefined"
        /\ fn_under' = fn_under + 1
        /\ UNCHANGED fn_stack
  /\ backend_out' = <<>>
  /\ ret' = Result("pop_fn", None, None)
  /\ UNCHANGED <<envvars, cachevars, blockvars, declvars>>

peek_fn ==
  /\ status = "running" /\ CtxTick
  /\ \/ /\ fn_stack # <<>>
        /\ ret' = Result("peek_fn", None, Back(fn_stack))
        /\ UNCHANGED status
     \/ \* back () of an empty vector: the process dies ...
        /\ fn_stack = <<>>
        /\ status' = "crashed"
        /\ ret' = Result("peek_fn", None, None)
     \/ \* ... or what lies before the buffer is returned
        /\ fn_stack = <<>>
        /\ status' = "undefined"
        /\ ret' = Result("peek_fn", None, fncontext(Garbage, Garbage))
  /\ backend_out' = <<>>
  /\ UNCHANGED <<envvars, fnvars, cachevars, blockvars, declvars>>

\* ------------------------------------------------- top-level declarations
Pushed(op, x) ==
  /\ backend_out' = <<>>
  /\ ret' = Result(op, x, None)
  /\ UNCHANGED <<status, envvars, fnvars, cachevars, blockvars>>

push_type(t) ==
  /\ status = "running" /\ CtxTick
  /\ Len(type_decls) < MaxDecls
  /\ type_decls' = Append(type_decls, t)
  /\ UNCHANGED <<var_decls, const_decls, func_decls, g_pushed>>
  /\ Pushed("push_type", t)

push_var(v) ==
  /\ status = "running" /\ CtxTick
  /\ Len(var_decls) < MaxDecls
  /\ var_decls' = Append(var_decls, v)
  /\ UNCHANGED <<type_decls, const_decls, func_decls, g_pushed>>
  /\ Pushed("push_var", v)

push_const(c) ==
  /\ status = "running" /\ CtxTick
  /\ Len(const_decls) < MaxDecls
  /\ const_decls' = Append(const_decls, c)
  /\ UNCHANGED <<type_decls, var_decls, func_decls, g_pushed>>
  /\ Pushed("push_const", c)

\* push_function that skips a function the list holds already
push_function_dedup(f) ==
  /\ status = "running" /\ CtxTick
  /\ Len(func_decls) < MaxDecls
  /\ func_decls' = IF \E i \in 1..Len(func_decls) : func_decls[i] = f
                   THEN func_decls ELSE Append(func_decls, f)
  /\ g_pushed' = g_pushed \cup {f}
  /\ UNCHANGED <<type_decls, var_decls, const_decls>>
  /\ Pushed("push_function", f)

push_function(f) ==
  /\ status = "running" /\ CtxTick
  /\ Len(func_decls) < MaxDecls
  /\ func_decls' = Append(func_decls, f)
  /\ g_pushed' = g_pushed \cup {f}
  /\ UNCHANGED <<type_decls, var_decls, const_decls>>
  /\ Pushed("push_function", f)

WriteGlobalDefinitions(types, consts, funcs, vs) ==
  [call |-> "write_global_definitions", type_decls |-> types,
   const_decls |-> consts, func_decls |-> funcs, var_decls |-> vs]

write_to_backend ==
  /\ status = "running" /\ CtxTick
  /\ backend_out' =
       <<WriteGlobalDefinitions(type_decls, const_decls, func_decls, var_decls)>>
  /\ ret' = Result("write_to_backend", None, None)
  /\ UNCHANGED <<status, envvars, fnvars, cachevars, blockvars, declvars>>

\* the loop of function_completed, from position i on
RECURSIVE FunctionCompletedFrom(_, _)
FunctionCompletedLast(i, fn) ==
  Len(func_decls) > 0 /\ func_decls[Len(func_decls)] = fn

FunctionCompletedFrom(i, fn) ==
  IF i > Len(func_decls) THEN FALSE
  ELSE IF func_decls[i] = fn THEN TRUE
  ELSE FunctionCompletedFrom(i + 1, fn)

function_completed(fn) ==
  /\ status = "running" /\ CtxTick
  /\ ret' = Result("function_completed", fn, FunctionCompletedFrom(1, fn))
  /\ backend_out' = <<>>
  /\ UNCHANGED <<status, envvars, fnvars, cachevars, blockvars, declvars>>

\* ==================================================== TypeCheckExpr
\* ------------------------------------------------------------------- TyTy
Ty(kind, w, ref) == [kind |-> kind, w |-> w, cap |-> 0, elem |-> <<>>, ref |-> ref]

\* nullptr: the absent type
Null == Ty("null", 0, 0)

ArrayType(ref, capacity, element) ==
  [kind |-> "Array", w |-> 0, cap |-> capacity, elem |-> <<element>>, ref |-> ref]

FnType(ref, return_type) ==
  [kind |-> "Fn", w |-> 0, cap |-> 0, elem |-> <<return_type>>, ref |-> ref]

UnitType(ref) == Ty("Unit", 0, ref)

TcBuiltinNames ==
  {"bool", "i8", "i16", "i32", "i64", "i128", "u8", "u16", "u32", "u64",
   "u128", "f32", "f64"}

\* the builtin a name stands for
Builtin(name) ==
  CASE name = "bool" -> Ty("Bool", 0, BuiltinRef(name))
    [] name = "i8" -> Ty("Int", 8, BuiltinRef(name))
    [] name = "i16" -> Ty("Int", 16, BuiltinRef(name))
    [] name = "i32" -> Ty("Int", 32, BuiltinRef(name))
    [] name = "i64" -> Ty("Int", 64, BuiltinRef(name))
    [] name = "i128" -> Ty("Int", 128, BuiltinRef(name))
    [] name = "u8" -> Ty("Uint", 8, BuiltinRef(name))
    [] name = "u16" -> Ty("Uint", 16, BuiltinRef(name))
    [] name = "u32" -> Ty("Uint", 32, BuiltinRef(name))
    [] name = "u64" -> Ty("Uint", 64, BuiltinRef(name))
    [] name = "u128" -> Ty("Uint", 128, BuiltinRef(name))
    [] name = "f32" -> Ty("Float", 32, BuiltinRef(name))
    [] name = "f64" -> Ty("Float", 64, BuiltinRef(name))

\* type equality: the variant and its parameters, an ADT's defining node;
\* not the node a Unit or Array type object was created for
RECURSIVE TyEq(_, _)
TyEq(a, b) ==
  /\ a.kind = b.kind /\ a.w = b.w /\ a.cap = b.cap
  /\ (a.kind = "ADT" => a.ref = b.ref)
  /\ Len(a.elem) = Len(b.elem)
  /\ \A i \in 1..Len(a.elem) : TyEq(a.elem[i], b.elem[i])

\* a->combine (b) of two type objects; Null when they do not unify
RECURSIVE Combine(_, _)
Combine(a, b) ==
  CASE a.kind = "Error" -> a
    [] b.kind = "Error" -> b
    [] a.kind = "Infer" -> b
    [] b.kind = "Infer" -> a
    [] a.kind \in {"Int", "Uint", "Float"} ->
         IF a.kind = b.kind /\ a.w = b.w THEN a ELSE Null
    [] a.kind \in {"Bool", "Unit"} ->
         IF a.kind = b.kind THEN a ELSE Null
    [] a.kind = "Array" ->
         IF b.kind = "Array" /\ a.cap = b.cap
         THEN LET e == Combine(a.elem[1], b.elem[1])
              IN IF e = Null THEN Null ELSE ArrayType(a.ref, a.cap, e)
         ELSE Null
    [] a.kind = "ADT" ->
         IF b.kind = "ADT" /\ a.ref = b.ref THEN a ELSE Null
    [] OTHER -> Null

\* ------------------------------------------------------ TyTyResolveCompile
\* A target type is written as a type expression: <<t>> for a type t of the
\* compiled-type cache, <<"array_type", length>> \o element for the type
\* backend->array_type (element, length) builds.
Translated(st, translated, calls) ==
  [st |-> st, translated |-> translated, calls |-> calls]

NominalKinds == {"ADT", "Bool", "Int", "Uint", "Float"}
UnreachableKinds == {"Error", "Unit", "Infer", "Fn", "StructField", "Param"}

\* the visits of the nominal types without rust_assert (ok)
TyTyResolveCompile_nocheck(map, ty) ==
  Translated("running", <<MapFind(map, ty.ref).value>>, <<>>)

\* visit (ADTType), (BoolType), (IntType), (UintType), (FloatType)
visit_Nominal(map, ty) ==
  IF MapFind(map, ty.ref).found
  THEN Translated("running", <<MapFind(map, ty.ref).value>>, <<>>)
  ELSE Translated("fatal", <<>>, <<>>)

\* the backend calls of visit (ArrayType) before and after the element
ArrayTypeCalls(element) ==
  <<"integer_type", "integer_constant_expression">> \o element.calls
    \o (IF element.st = "running" THEN <<"array_type">> ELSE <<>>)

\* TyTyResolveCompile::compile (ctx, ty): ty->accept_vis (compiler)
RECURSIVE TyTyResolveCompile(_, _)
TyTyResolveCompile(map, ty) ==
  CASE ty.kind \in NominalKinds -> visit_Nominal(map, ty)
    [] ty.kind = "Array" ->
         LET element == TyTyResolveCompile(map, ty.elem[1])
         IN Translated(element.st,
                       IF element.st = "running"
                       THEN <<"array_type", ty.cap>> \o element.translated
                       ELSE <<>>,
                       ArrayTypeCalls(element))
    [] ty.kind \in UnreachableKinds -> Translated("fatal", <<>>, <<>>)

compile(ty) ==
  /\ status = "running" /\ CtxTick
  /\ status' = TyTyResolveCompile(compiled_type_map, ty).st
  /\ backend_out' = TyTyResolveCompile(compiled_type_map, ty).calls
  /\ ret' = Result("compile", ty,
                   TyTyResolveCompile(compiled_type_map, ty).translated)
  /\ UNCHANGED <<envvars, fnvars, cachevars, blockvars, declvars>>

\* -------------------------------------------------------------- the input
\* What a leaf expression is: a literal (its lit_type and type hint) or an
\* identifier (how far its lookups get, and the declaration it names).
LKinds == {"int", "u8", "f64", "bool", "char", "x_i32", "x_infer", "x_arr",
           "x_unresolved", "x_nodef", "x_norev", "x_notype"}
RKinds == {"int", "u8", "f64", "bool", "x_i32", "x_unresolved"}

DeclI32 == 20
DeclInfer == 21
DeclArr == 22
DeclUntyped == 23
DeclFn == 24


LeafIdsL == {111, 121, 131, 141, 153, 163, 173, 181, 191, 193, 232, 242, 243,
             263, 271, 272}
LeafIdsR == {101, 112, 122, 132, 142, 165, 177, 182, 192, 201, 233, 234, 244,
             265, 273}
LeafIdsC == {151, 161, 171, 175, 261}

LeafKind(id) ==
  IF id \in LeafIdsL THEN prog.L
  ELSE IF id \in LeafIdsR THEN prog.R
  ELSE "bool"

N(kind, kids) == [kind |-> kind, kids |-> kids]

\* the expression trees; every node has one parent
Node(id) ==
  CASE id = 100 -> N("ReturnExpr", <<101>>)
    [] id = 110 -> N("AssignmentExpr", <<111, 112>>)
    [] id = 120 -> N("ArithmeticOrLogicalExpr", <<121, 122>>)
    [] id = 130 -> N("ComparisonExpr", <<131, 132>>)
    [] id = 140 -> N("LazyBooleanExpr", <<141, 142>>)
    [] id = 150 -> N("IfExpr", <<151, 152>>)
    [] id = 152 -> N("BlockExpr", <<153>>)
    [] id = 160 -> N("IfExprConseqElse", <<161, 162, 164>>)
    [] id = 162 -> N("BlockExpr", <<163>>)
    [] id = 164 -> N("BlockExpr", <<165>>)
    [] id = 170 -> N("IfExprConseqIf", <<171, 172, 174>>)
    [] id = 172 -> N("BlockExpr", <<173>>)
    [] id = 174 -> N("IfExpr", <<175, 176>>)
    [] id = 176 -> N("BlockExpr", <<177>>)
    [] id = 180 -> N("ArrayIndexExpr", <<181, 182>>)
    [] id = 190 -> N("ArrayExprValues", <<191, 192, 193>>)
    [] id = 200 -> N("ArrayExprCopied", <<201>>)
    [] id = 210 -> N("CallExpr", <<>>)
    [] id = 220 -> N("StructExprStructFields", <<>>)
    [] id = 230 -> N("ArithmeticOrLogicalExpr", <<231, 234>>)
    [] id = 231 -> N("AssignmentExpr", <<232, 233>>)
    [] id = 240 -> N("ArrayIndexExpr", <<241, 244>>)
    [] id = 241 -> N("ArrayExprValues", <<242, 243>>)
    [] id = 250 -> N("ArrayExprValues", <<>>)
    [] id = 260 -> N("IfExprConseqElse", <<261, 262, 264>>)
    [] id = 262 -> N("BlockExpr", <<263>>)
    [] id = 264 -> N("BlockExpr", <<265>>)
    [] id = 270 -> N("ArrayExprValues", <<271, 272, 273>>)
    [] OTHER -> IF LeafKind(id) \in {"int", "u8", "f64", "bool", "char"}
                THEN N("LiteralExpr", <<>>)
                ELSE N("IdentifierExpr", <<>>)

ExprIds == {100, 110, 120, 130, 140, 150, 152, 160, 162, 164, 170, 172, 174,
            176, 180, 190, 200, 210, 220, 230, 231, 240, 241, 250, 260, 262,
            264, 270}
           \cup LeafIdsL \cup LeafIdsR \cup LeafIdsC

\* the repeat count of the copied array literal
CopiedCount == 4

Kid(id, i) == Node(id).kids[i]

RECURSIVE Subtree(_)
Subtree(id) ==
  {id} \cup UNION {Subtree(Node(id).kids[i]) : i \in 1..Len(Node(id).kids)}

\* a literal's type hint and its LitType before any visit
TypeHint(id) ==
  CASE LeafKind(id) = "u8" -> "u8"
    [] LeafKind(id) = "f64" -> "f64"
    [] OTHER -> "none"

InitialLitType(id) ==
  CASE LeafKind(id) \in {"int", "u8", "f64"} -> "INT"
    [] LeafKind(id) = "bool" -> "BOOL"
    [] LeafKind(id) = "char" -> "CHAR"
    [] OTHER -> "none"

\* resolver->lookup_resolved_name, resolver->lookup_definition and
\* mappings->lookup_node_to_hir of an identifier: the lookup that fails, or
\* the declaration reached
IdentifierLookup(id) ==
  CASE LeafKind(id) = "x_unresolved" -> [fail |-> "name", ref |-> 0]
    [] LeafKind(id) = "x_nodef" -> [fail |-> "definition", ref |-> 0]
    [] LeafKind(id) = "x_norev" -> [fail |-> "node_to_hir", ref |-> 0]
    [] LeafKind(id) = "x_notype" -> [fail |-> "none", ref |-> DeclUntyped]
    [] LeafKind(id) = "x_infer" -> [fail |-> "none", ref |-> DeclInfer]
    [] LeafKind(id) = "x_arr" -> [fail |-> "none", ref |-> DeclArr]
    [] OTHER -> [fail |-> "none", ref |-> DeclI32]

\* the same lookups of the callee of the call expression
CalleeLookup ==
  CASE prog.L = "x_unresolved" -> [fail |-> "name", ref |-> 0]
    [] prog.L = "x_norev" -> [fail |-> "node_to_hir", ref |-> 0]
    [] prog.L = "x_notype" -> [fail |-> "none", ref |-> DeclUntyped]
    [] prog.L = "x_i32" -> [fail |-> "none", ref |-> DeclI32]
    [] OTHER -> [fail |-> "none", ref |-> DeclFn]

\* TypeCheckStructExpr::Resolve: an ADT, or nothing
StructAdt == 30

TypeCheckStructExprResolve ==
  IF prog.L \in {"x_unresolved", "x_nodef", "x_norev", "x_notype"}
  THEN Null ELSE Ty("ADT", 0, StructAdt)

\* the types recorded before the expressions are checked
InitialTypes ==
  LET decls == (DeclI32 :> Builtin("i32")) @@ (DeclInfer :> Ty("Infer", 0, DeclInfer))
               @@ (DeclArr :> ArrayType(DeclArr, 4, Builtin("f64")))
               @@ (DeclFn :> FnType(DeclFn, Builtin("u8")))
  IN [id \in {BuiltinRef(n) : n \in TcBuiltinNames} \cup DOMAIN decls |->
        IF id \in DOMAIN decls THEN decls[id]
        ELSE Builtin(CHOOSE n \in TcBuiltinNames : BuiltinRef(n) = id)]

\* ---------------------------------------------------------- checker state
\* What a visit threads through: the type table, the literals' LitTypes, the
\* process (running, or how it ended), the count of rust_error_at calls and
\* the insert_type calls in order.
Out(s, ty) == [s |-> s, ty |-> ty]

Die(s, how) == Out([s EXCEPT !.st = how], Null)

ErrorAt(s) == [s EXCEPT !.nd = @ + 1]

\* context->insert_type (id, type)
insert_type(s, id, ty) ==
  IF ty = Null THEN [s EXCEPT !.st = "fatal"]
  ELSE [s EXCEPT !.tbl = MapPut(@, id, ty), !.w = Append(@, <<id, ty>>)]

\* context->lookup_type (id, &type)
lookup_type(s, id) == MapFind(s.tbl, id)

\* context->lookup_builtin (name, &type)
lookup_builtin(name) ==
  IF name \in TcBuiltinNames
  THEN [found |-> TRUE, value |-> Builtin(name)]
  ELSE [found |-> FALSE, value |-> Null]

\* context->peek_return_type ()
peek_return_type == IF prog.ret = "none" THEN Null ELSE Builtin(prog.ret)

\* what a call through a null pointer, or a read past a vector, does: the
\* process dies, or goes on in a state the language does not define
UndefinedBehaviour(s, ub) == Die(s, IF ub = "crash" THEN "crashed" ELSE "undefined")

\* a->combine (b) as the visits call it: no visit looks at a or b first, so
\* a null a is a call through a null pointer and a null b is read by
\* combine; a failed combine reports and yields null
CombineCall(s, a, b, ub) ==
  IF a = Null \/ b = Null THEN UndefinedBehaviour(s, ub)
  ELSE LET c == Combine(a, b)
       IN IF c = Null THEN Out(ErrorAt(s), Null) ELSE Out(s, c)

\* TypeCheckCallExpr::go (lookup, expr)
TypeCheckCallExprGo(s, lookup) ==
  IF lookup.kind = "Fn" THEN Out(s, lookup.elem[1]) ELSE Out(ErrorAt(s), Null)

\* ------------------------------------------------------------- the visits
RECURSIVE Resolve(_, _, _, _), Visit(_, _, _, _)

Running(r) == r.s.st = "running"

\* the statements after a call: not reached when the call killed the process
Bind(r, F(_)) == IF Running(r) THEN F(r) ELSE Out(r.s, Null)

IntHints == {"i8", "i16", "i32", "i64", "i128", "u8", "u16", "u32", "u64",
             "u128", "f32", "f64"}

\* the builtin looked up must exist (rust_assert (ok))
LiteralBuiltin(s, b) == IF b.found THEN Out(s, b.value) ELSE Die(s, "fatal")

\* the literal visit whose FLOAT case takes no type hint
visit_LiteralExpr_nohint(s, e, final, ub) ==
  CASE s.lit[e] = "INT" ->
         LiteralBuiltin(
           IF TypeHint(e) \in {"f32", "f64"}
           THEN [s EXCEPT !.lit[e] = "FLOAT"] ELSE s,
           lookup_builtin(IF TypeHint(e) \in IntHints THEN TypeHint(e) ELSE "i32"))
    [] s.lit[e] = "FLOAT" -> LiteralBuiltin(s, lookup_builtin("f32"))
    [] s.lit[e] = "BOOL" -> LiteralBuiltin(s, lookup_builtin("bool"))
    [] OTHER -> Die(s, "fatal")

visit_LiteralExpr(s, e, final, ub) ==
  CASE s.lit[e] = "INT" ->
         LiteralBuiltin(
           IF TypeHint(e) \in {"f32", "f64"}
           THEN [s EXCEPT !.lit[e] = "FLOAT"] ELSE s,
           lookup_builtin(IF TypeHint(e) \in IntHints THEN TypeHint(e) ELSE "i32"))
    [] s.lit[e] = "FLOAT" ->
         LiteralBuiltin(s, lookup_builtin(
           IF TypeHint(e) \in {"f32", "f64"} THEN TypeHint(e) ELSE "f32"))
    [] s.lit[e] = "BOOL" -> LiteralBuiltin(s, lookup_builtin("bool"))
    [] OTHER -> Die(s, "fatal")

\* the lookup sequence without its rust_error_at
TypeOfLookup_silent(s, lk, t) ==
  IF lk.fail # "none" \/ ~t.found THEN Out(s, Null)
  ELSE Out(s, t.value)

\* the type of the declaration a name leads to, an error without one
TypeOfLookup(s, lk, t) ==
  IF lk.fail # "none" \/ ~t.found THEN Out(ErrorAt(s), Null)
  ELSE Out(s, t.value)

visit_IdentifierExpr(s, e, final, ub) ==
  TypeOfLookup(s, IdentifierLookup(e), lookup_type(s, IdentifierLookup(e).ref))

visit_CallExpr(s, e, final, ub) ==
  Bind(TypeOfLookup(s, CalleeLookup, lookup_type(s, CalleeLookup.ref)),
       LAMBDA lookup : IF lookup.ty = Null THEN lookup
                       ELSE TypeCheckCallExprGo(lookup.s, lookup.ty))

visit_ReturnExpr(s, e, final, ub) ==
  IF peek_return_type = Null THEN Die(s, "fatal")
  ELSE Bind(Resolve(s, Kid(e, 1), FALSE, ub),
            LAMBDA expr_ty : CombineCall(expr_ty.s, peek_return_type, expr_ty.ty, ub))

\* the assignment without the overwrite of the lhs entry
visit_AssignmentExpr_keep(s, e, final, ub) ==
  Bind(Resolve(s, Kid(e, 1), FALSE, ub), LAMBDA lhs :
  Bind(Resolve(lhs.s, Kid(e, 2), FALSE, ub), LAMBDA rhs :
  CombineCall(rhs.s, lhs.ty, rhs.ty, ub)))

\* the assignment that records the right-hand side's type for the left
visit_AssignmentExpr_rhs(s, e, final, ub) ==
  Bind(Resolve(s, Kid(e, 1), FALSE, ub), LAMBDA lhs :
  Bind(Resolve(lhs.s, Kid(e, 2), FALSE, ub), LAMBDA rhs :
  Out(insert_type(rhs.s, Kid(e, 1), rhs.ty), rhs.ty)))

visit_AssignmentExpr(s, e, final, ub) ==
  Bind(Resolve(s, Kid(e, 1), FALSE, ub), LAMBDA lhs :
  Bind(Resolve(lhs.s, Kid(e, 2), FALSE, ub), LAMBDA rhs :
  Bind(CombineCall(rhs.s, lhs.ty, rhs.ty, ub), LAMBDA c :
  Out(insert_type(c.s, Kid(e, 1), c.ty), c.ty))))

\* auto lhs = Resolve (..); auto rhs = Resolve (..); lhs->combine (rhs)
ResolveBothAndCombine(s, e, ub) ==
  Bind(Resolve(s, Kid(e, 1), FALSE, ub), LAMBDA lhs :
  Bind(Resolve(lhs.s, Kid(e, 2), FALSE, ub), LAMBDA rhs :
  CombineCall(rhs.s, lhs.ty, rhs.ty, ub)))

visit_ArithmeticOrLogicalExpr(s, e, final, ub) == ResolveBothAndCombine(s, e, ub)

visit_ComparisonExpr(s, e, final, ub) == ResolveBothAndCombine(s, e, ub)

visit_LazyBooleanExpr(s, e, final, ub) == ResolveBothAndCombine(s, e, ub)

visit_IfExpr(s, e, final, ub) ==
  Bind(Resolve(s, Kid(e, 1), FALSE, ub), LAMBDA c :
  Bind(Resolve(c.s, Kid(e, 2), FALSE, ub), LAMBDA b :
  Out(b.s, UnitType(e))))

visit_IfExprConseqElse(s, e, final, ub) ==
  Bind(Resolve(s, Kid(e, 1), final, ub), LAMBDA c :
  Bind(Resolve(c.s, Kid(e, 2), FALSE, ub), LAMBDA if_blk_ty :
  Bind(Resolve(if_blk_ty.s, Kid(e, 3), FALSE, ub), LAMBDA else_blk_ty :
  IF ~final THEN Out(else_blk_ty.s, UnitType(e))
  ELSE Bind(CombineCall(else_blk_ty.s, peek_return_type, if_blk_ty.ty, ub),
            LAMBDA infered : CombineCall(infered.s, infered.ty, else_blk_ty.ty, ub)))))

visit_IfExprConseqIf(s, e, final, ub) ==
  Bind(Resolve(s, Kid(e, 1), FALSE, ub), LAMBDA c :
  Bind(Resolve(c.s, Kid(e, 2), FALSE, ub), LAMBDA b :
  Bind(Resolve(b.s, Kid(e, 3), FALSE, ub), LAMBDA n :
  Out(n.s, UnitType(e)))))

\* a block's type is that of its final expression, Unit without one
visit_BlockExpr(s, e, final, ub) ==
  IF Node(e).kids = <<>> THEN Out(s, UnitType(e))
  ELSE Resolve(s, Kid(e, 1), TRUE, ub)

\* TyTyExtractorArray::ExtractElementTypeFromArray
ExtractElementTypeFromArray(ty) == ty.elem[1]

\* the index visit that takes whatever type the indexed expression has
visit_ArrayIndexExpr_nocheck(s, e, final, ub) ==
  Bind(Resolve(s, Kid(e, 2), FALSE, ub), LAMBDA ix :
  Bind(CombineCall(ix.s, Ty("Int", 32, Kid(e, 2)), ix.ty, ub), LAMBDA resolved_ix :
  IF resolved_ix.ty = Null THEN Die(resolved_ix.s, "fatal")
  ELSE Bind(Visit(resolved_ix.s, Kid(e, 1), final, ub), LAMBDA arr :
       IF arr.ty = Null THEN UndefinedBehaviour(arr.s, ub)
       ELSE IF arr.ty.kind # "Array" THEN Out(arr.s, arr.ty)
       ELSE Out(arr.s, ExtractElementTypeFromArray(arr.ty)))))

visit_ArrayIndexExpr(s, e, final, ub) ==
  Bind(Resolve(s, Kid(e, 2), FALSE, ub), LAMBDA ix :
  Bind(CombineCall(ix.s, Ty("Int", 32, Kid(e, 2)), ix.ty, ub), LAMBDA resolved_ix :
  IF resolved_ix.ty = Null THEN Die(resolved_ix.s, "fatal")
  ELSE Bind(Visit(resolved_ix.s, Kid(e, 1), final, ub), LAMBDA arr :
       IF arr.ty = Null THEN UndefinedBehaviour(arr.s, ub)
       ELSE IF arr.ty.kind # "Array" THEN Die(arr.s, "fatal")
       ELSE Out(arr.s, ExtractElementTypeFromArray(arr.ty)))))

\* elems.iterate: Resolve of every element in order, its result pushed back
RECURSIVE ResolveElems(_, _, _, _)
ResolveElems(acc, kids, i, ub) ==
  IF i > Len(kids) THEN acc
  ELSE Bind(Resolve(acc.s, kids[i], FALSE, ub), LAMBDA x :
       ResolveElems(Out(x.s, Append(acc.ty, x.ty)), kids, i + 1, ub))

\* the loop of visit (ArrayElemsValues): types[i] combined into the result
RECURSIVE CombineElems(_, _, _, _)
CombineElems(acc, types, i, ub) ==
  IF i > Len(types) \/ ~Running(acc) THEN acc
  ELSE CombineElems(CombineCall(acc.s, acc.ty, types[i], ub), types, i + 1, ub)

\* the element visit that takes the first element's type for them all
visit_ArrayElemsValues_first(s, kids, ub) ==
  Bind(ResolveElems(Out(s, <<>>), kids, 1, ub), LAMBDA types :
  IF types.ty = <<>>
  THEN UndefinedBehaviour(types.s, ub)
  ELSE Out(types.s, types.ty[1]))

visit_ArrayElemsValues(s, kids, ub) ==
  Bind(ResolveElems(Out(s, <<>>), kids, 1, ub), LAMBDA types :
  IF types.ty = <<>>
  THEN UndefinedBehaviour(types.s, ub)
  ELSE CombineElems(Out(types.s, types.ty[1]), types.ty, 2, ub))

visit_ArrayElemsCopied(s, elem, ub) == Resolve(s, elem, FALSE, ub)

\* rust_assert (infered_array_elems != nullptr); new TyTy::ArrayType
NewArrayType(e, num_elems, elems) ==
  IF elems.ty = Null THEN Die(elems.s, "fatal")
  ELSE Out(elems.s, ArrayType(e, num_elems, elems.ty))

visit_ArrayExpr(s, e, final, ub) ==
  IF Node(e).kind = "ArrayExprCopied"
  THEN Bind(visit_ArrayElemsCopied(s, Kid(e, 1), ub),
            LAMBDA elems : NewArrayType(e, CopiedCount, elems))
  ELSE Bind(visit_ArrayElemsValues(s, Node(e).kids, ub),
            LAMBDA elems : NewArrayType(e, Len(Node(e).kids), elems))

visit_StructExprStructFields(s, e, final, ub) ==
  IF TypeCheckStructExprResolve = Null THEN Out(ErrorAt(s), Null)
  ELSE Out(s, TypeCheckStructExprResolve)

\* expr->accept_vis (resolver)
Visit(s, e, final, ub) ==
  LET k == Node(e).kind
  IN CASE k = "ReturnExpr" -> visit_ReturnExpr(s, e, final, ub)
       [] k = "CallExpr" -> visit_CallExpr(s, e, final, ub)
       [] k = "AssignmentExpr" -> visit_AssignmentExpr(s, e, final, ub)
       [] k = "IdentifierExpr" -> visit_IdentifierExpr(s, e, final, ub)
       [] k = "LiteralExpr" -> visit_LiteralExpr(s, e, final, ub)
       [] k = "ArithmeticOrLogicalExpr" -> visit_ArithmeticOrLogicalExpr(s, e, final, ub)
       [] k = "ComparisonExpr" -> visit_ComparisonExpr(s, e, final, ub)
       [] k = "LazyBooleanExpr" -> visit_LazyBooleanExpr(s, e, final, ub)
       [] k = "IfExpr" -> visit_IfExpr(s, e, final, ub)
       [] k = "IfExprConseqElse" -> visit_IfExprConseqElse(s, e, final, ub)
       [] k = "IfExprConseqIf" -> visit_IfExprConseqIf(s, e, final, ub)
       [] k = "BlockExpr" -> visit_BlockExpr(s, e, final, ub)
       [] k = "ArrayIndexExpr" -> visit_ArrayIndexExpr(s, e, final, ub)
       [] k \in {"ArrayExprValues", "ArrayExprCopied"} -> visit_ArrayExpr(s, e, final, ub)
       [] k = "StructExprStructFields" -> visit_StructExprStructFields(s, e, final, ub)

\* Resolve that records nothing
ResolveNoRecord(s, e, final, ub) == Bind(Visit(s, e, final, ub), LAMBDA v : v)

Resolve(s, e, final, ub) ==
  Bind(Visit(s, e, final, ub), LAMBDA v :
       IF v.ty # Null THEN Out(insert_type(v.s, e, v.ty), v.ty) ELSE v)

\* ------------------------------------------------------- the checking pass
TcRoots == {100, 110, 111, 120, 130, 140, 150, 160, 170, 180, 190, 200, 210,
            220, 230, 240, 250, 260, 270}

\* is_final_expr as the caller passes it: the if/else 260 is the tail of
\* its function's body, every other root is a statement
IsFinalExpr(e) == e = 260

Restrict(f, S) == [x \in (DOMAIN f) \cap S |-> f[x]]

TcStart == [tbl |-> resolved, lit |-> lit_type, st |-> "running", nd |-> 0,
            w |-> <<>>]

ResolveExpr(e, final, ub) ==
  /\ tc_status = "running" /\ Tick
  /\ LET r == Resolve(TcStart, e, final, ub)
         v == Visit(TcStart, e, final, ub)
     IN /\ resolved' = r.s.tbl
        /\ lit_type' = r.s.lit
        /\ tc_status' = r.s.st
        /\ tc_out' = [expr |-> e, final |-> final, ty |-> r.ty, nd |-> r.s.nd,
                      writes |-> r.s.w, infered |-> v.ty,
                      had |-> e \in DOMAIN resolved]
        /\ g_first' =
             IF r.s.st = "running" /\ e \notin DOMAIN g_first
             THEN MapPut(g_first, e, Restrict(r.s.tbl, Subtree(e)))
             ELSE g_first
  /\ UNCHANGED <<prog, ctxvars>>

TcInit(p) ==
  /\ prog = p
  /\ resolved = InitialTypes
  /\ lit_type = [id \in LeafIdsL \cup LeafIdsR \cup LeafIdsC |-> InitialLitType(id)]
  /\ tc_status = "running"
  /\ tc_out = [expr |-> 0, final |-> FALSE, ty |-> Null, nd |-> 0,
               writes |-> <<>>, infered |-> Null, had |-> FALSE]
  /\ g_first = <<>>

Programs == [L : LKinds, R : RKinds, ret : {"u8", "none"}]

NoProgram == [L |-> "int", R |-> "int", ret |-> "u8"]

\* ----------------------------------------------------------- specifications
AllBuiltins == BuiltinNames

InitBlocks == Context(AllBuiltins, AllBuiltins) /\ TcInit(NoProgram) /\ budget = MaxBlockOps

NextBlocks ==
  \/ \E scope \in Bblocks : push_block(scope)
  \/ pop_block
  \/ \E stmt \in Bstatements : add_statement(stmt)
  \/ peek_enclosing_scope

SpecBlocks == InitBlocks /\ [][NextBlocks]_vars

InitFn == Context(AllBuiltins, AllBuiltins) /\ TcInit(NoProgram) /\ budget = MaxFnOps

NextFn ==
  \/ \E fn \in Bfunctions, ret_addr \in Bvariables : push_fn(fn, ret_addr)
  \/ pop_fn
  \/ peek_fn

SpecFn == InitFn /\ [][NextFn]_vars

\* the resolver's builtins, and whether the type-check context knows them all
InitCache ==
  /\ \E bs \in SUBSET BuiltinNames, known \in {BuiltinNames, {"bool"}} :
       Context(bs, known)
  /\ TcInit(NoProgram)
  /\ budget = MaxCacheOps

NextCache ==
  \/ \E id \in HirIds, type \in Btypes : insert_compiled_type(id, type)
  \/ \E id \in HirIds, decl \in Bvariables : insert_var_decl(id, decl)
  \/ \E id \in HirIds, fn \in Bfunctions : insert_function_decl(id, fn)
  \/ \E id \in HirIds, expr \in Bexpressions : insert_const_decl(id, expr)

SpecCache == InitCache /\ [][NextCache]_vars

\* the types handed to compile: every variant, arrays of them, an array of
\* arrays
CompileElems ==
  {Builtin("bool"), Builtin("i32"), Builtin("u8"), Builtin("f64"),
   Ty("ADT", 0, 3), Ty("Error", 0, 0), UnitType(0), Ty("Infer", 0, 0),
   FnType(0, Builtin("i32")), Ty("StructField", 0, 0), Ty("Param", 0, 0)}

CompileInputs ==
  CompileElems
    \cup {ArrayType(0, MaxCapacity, t) : t \in CompileElems}
    \cup {ArrayType(0, 1, ArrayType(0, MaxCapacity, t)) :
            t \in {Builtin("bool"), Ty("ADT", 0, 3), UnitType(0)}}

\* the identities a compiled type is registered under
CompileIds == HirIds \cup {BuiltinRef("u8"), BuiltinRef("f64")}

InitCompile ==
  /\ \E bs \in SUBSET BuiltinNames : Context(bs, BuiltinNames)
  /\ TcInit(NoProgram)
  /\ budget = MaxCompileOps

NextCompile ==
  \/ \E id \in CompileIds, type \in Btypes : insert_compiled_type(id, type)
  \/ \E ty \in CompileInputs : compile(ty)

SpecCompile == InitCompile /\ [][NextCompile]_vars

InitDecls == Context(AllBuiltins, AllBuiltins) /\ TcInit(NoProgram) /\ budget = MaxDeclOps

NextDecls ==
  \/ \E t \in Btypes : push_type(t)
  \/ \E v \in Bvariables : push_var(v)
  \/ \E c \in Bexpressions : push_const(c)
  \/ \E f \in Bfunctions : push_function(f)
  \/ write_to_backend
  \/ \E fn \in Bfunctions : function_completed(fn)

SpecDecls == InitDecls /\ [][NextDecls]_vars

\* every operation of the Context, in any order
Init == Context(AllBuiltins, AllBuiltins) /\ TcInit(NoProgram) /\ budget = MaxOps

Next == NextBlocks \/ NextFn \/ NextCache \/ NextDecls

Spec == Init /\ [][Next]_vars

\* the type-checking pass over one input program
InitTc ==
  /\ Context(AllBuiltins, AllBuiltins)
  /\ \E p \in Programs : TcInit(p)
  /\ budget = MaxTcOps

NextTc == \E e \in TcRoots, ub \in {"crash", "garbage"} :
            ResolveExpr(e, IsFinalExpr(e), ub)

SpecTc == InitTc /\ [][NextTc]_vars

\* ------------------------------------------------------------------ claims
\* C1 as stated: the block a pop_block returns has had attached to it, by
\* exactly one block_add_statements call, all the statements added since
\* its push_block (those added while a nested block was open included).
C1_AttachedAllSincePush ==
  (ret.op = "pop_block" /\ status = "running") =>
     /\ ret.val = g_popped.block
     /\ backend_out = <<BlockAddStatements(g_popped.block, g_popped.since)>>

\* C1 amended: the block a pop_block returns has had attached to it, by
\* exactly one block_add_statements call, exactly the statements added while
\* it was the innermost open block, in insertion order.
C1_AttachedOwnStatements ==
  (ret.op = "pop_block" /\ status = "running") =>
     /\ ret.val = g_popped.block
     /\ backend_out = <<BlockAddStatements(g_popped.block, g_popped.own)>>

\* an outer block is popped after statements went to it and to a nested block
C1_Witness ==
  /\ ret.op = "pop_block" /\ status = "running"
  /\ g_popped.own = <<"s1">>
  /\ g_popped.since = <<"s1", "s2">>

\* C2: the scope stack and the pending-statement stack have the same depth
\* in every reachable state.
C2_StackDepthsEqual ==
  Depth(scope_stack, scope_under) = Depth(statements, stmts_under)

C2_Witness ==
  /\ ret.op = "pop_block" /\ status = "running"
  /\ Len(scope_stack) = 1 /\ Len(statements) = 1

\* C3: pop_block or add_statement with no block open aborts the compilation:
\* no block is returned, no statement is stored, nothing goes to the backend.
C3_EmptyPopOrAddAborts ==
  (ret.op \in {"pop_block", "add_statement"} /\ status # "running") =>
     /\ status \in {"fatal", "crashed"}
     /\ ret.val = None
     /\ wild = {}
     /\ backend_out = <<>>

\* C4: peek_fn or pop_fn on an empty function stack aborts the compilation:
\* no pair is returned and the stack is left as it was.
C4_EmptyPeekOrPopAborts ==
  (ret.op \in {"peek_fn", "pop_fn"} /\ status # "running") =>
     /\ status \in {"fatal", "crashed"}
     /\ ret.val = None
     /\ Depth(fn_stack, fn_under) = 0

\* what the history of insertions says a lookup finds
Expected(c, id) ==
  IF g_last[c][id] = Never THEN [found |-> FALSE, value |-> None]
  ELSE [found |-> TRUE, value |-> g_last[c][id]]

\* C5: in each of the four caches a lookup finds nothing for an id never
\* inserted into that cache, and otherwise finds the value inserted last for
\* that id into that cache (so an insert touches no other id and no other
\* cache).
C5_LookupReturnsLastInsert ==
  \A id \in HirIds :
     /\ lookup_compiled_types(id) = Expected("type", id)
     /\ lookup_var_decl(id) = Expected("var", id)
     /\ lookup_function_decl(id) = Expected("fn", id)
     /\ lookup_const_decl(id) = Expected("const", id)

\* three inserts: one id of the function cache written twice, another id of
\* the variable cache once
C5_Witness ==
  /\ nops = 3
  /\ ret.op = "insert" /\ ret.arg = <<"fn", 3>>
  /\ lookup_function_decl(3) = [found |-> TRUE, value |-> "f2"]
  /\ ~lookup_function_decl(1).found /\ ~lookup_function_decl(2).found
  /\ lookup_var_decl(1).found
  /\ ~lookup_var_decl(3).found
  /\ DOMAIN compiled_consts = {}

\* C6: right after construction every builtin the resolver supplied is found
\* in the compiled-type cache, no insert_compiled_type call made.
C6_BuiltinsSeeded ==
  (status = "running" /\ nops = 0) =>
     \A b \in builtins :
        lookup_compiled_types(BuiltinRef(b)) =
          [found |-> TRUE, value |-> TyTyCompile(b)]

C6_Witness ==
  /\ status = "running" /\ nops = 0
  /\ builtins = BuiltinNames
  /\ lookup_compiled_types(BuiltinRef("i32")).found

\* C7: function_completed (fn) returns true exactly when fn was passed to
\* push_function before, and the call changes no state of the Context.
C7_FunctionCompleted ==
  /\ [](ret.op = "function_completed" => ret.val = (ret.arg \in g_pushed))
  /\ [][(ret'.op = "function_completed" /\ nops' # nops) =>
          UNCHANGED <<status, envvars, fnvars, cachevars, blockvars, declvars>>]_vars

C7_Witness ==
  /\ ret.op = "function_completed" /\ ret.arg = "f2" /\ ret.val = TRUE
  /\ func_decls = <<"f1", "f2">>


\* C8: after a Resolve (expr) that returned, expr's identity holds the type
\* Resolve returned exactly when the visit of expr computed a non-null type;
\* when the visit computed null the call returned null, wrote nothing
\* against expr's identity, and expr has an entry only if it had one before.
C8_ResolveRecordsIffNonNull ==
  (tc_out.expr # 0 /\ tc_status = "running") =>
    IF tc_out.infered # Null
    THEN /\ tc_out.expr \in DOMAIN resolved
         /\ resolved[tc_out.expr] = tc_out.ty
         /\ tc_out.ty = tc_out.infered
    ELSE /\ tc_out.ty = Null
         /\ (tc_out.expr \in DOMAIN resolved) <=> tc_out.had
         /\ \A i \in 1..Len(tc_out.writes) : tc_out.writes[i][1] # tc_out.expr

\* a binary expression whose operands do not combine was resolved: nothing
\* is against its identity, while the if expression resolved before it
\* has its type recorded
C8_Witness ==
  /\ tc_status = "running" /\ tc_out.expr = 120
  /\ tc_out.infered = Null /\ tc_out.nd > 0
  /\ 120 \notin DOMAIN resolved
  /\ 150 \in DOMAIN resolved /\ resolved[150].kind = "Unit"

\* C9: when Resolve of a node returns and the node was resolved before in
\* this pass, the node and every node of its sub-expressions have a recorded
\* type exactly if they had one after the first Resolve, and that type
\* equals, under type equality, the one recorded after the first.
C9_ResolveIdempotent ==
  (tc_status = "running" /\ tc_out.expr \in DOMAIN g_first) =>
    \A n \in Subtree(tc_out.expr) :
      /\ (n \in DOMAIN resolved) <=> (n \in DOMAIN g_first[tc_out.expr])
      /\ n \in DOMAIN resolved => TyEq(resolved[n], g_first[tc_out.expr][n])

\* the second Resolve of a node has returned: an assignment whose
\* left-hand side it overwrote again, or a literal with a float type hint
C9_Witness ==
  /\ tc_status = "running" /\ nops = 2 /\ tc_out.had
  /\ tc_out.expr \in DOMAIN g_first
  /\ \/ tc_out.expr = 110 /\ prog.L = "x_infer" /\ Len(tc_out.writes) = 4
     \/ tc_out.expr = 100 /\ prog.R = "f64" /\ lit_type[101] = "FLOAT"

\* two types conflict when they are not equal and do not combine
Conflicting(a, b) == ~TyEq(a, b) /\ Combine(a, b) = Null

\* no write of the log replaces an entry by a type that conflicts with it
RECURSIVE NoConflictingWrite(_, _, _)
NoConflictingWrite(tbl, writes, i) ==
  \/ i > Len(writes)
  \/ /\ writes[i][1] \in DOMAIN tbl => ~Conflicting(tbl[writes[i][1]], writes[i][2])
     /\ NoConflictingWrite(MapPut(tbl, writes[i][1], writes[i][2]), writes, i + 1)

AbsentLeaf(id) ==
  /\ Node(id).kind = "IdentifierExpr"
  /\ \/ IdentifierLookup(id).fail # "none"
     \/ IdentifierLookup(id).ref \notin DOMAIN InitialTypes

\* the sub-expression's Resolve returns the absent type: such a leaf, or a
\* block whose final expression is one
AbsentSubExpr(id) ==
  \/ AbsentLeaf(id)
  \/ /\ Node(id).kind = "BlockExpr" /\ Node(id).kids # <<>>
     /\ AbsentLeaf(Kid(id, 1))

\* the enclosing expressions C11 names
C11_Enclosing == {100, 110, 120, 130, 140, 180, 190, 260}

\* C11: when Resolve of a direct sub-expression of a Return, Assignment,
\* Arithmetic, Comparison, LazyBoolean, final If/Else, array literal or
\* array index ended in a recoverable error (absent type), the Resolve of
\* the enclosing expression returns: the pass is not aborted and is in no
\* undefined state.
C11_AbsentOperandIsChecked ==
  (/\ tc_out.expr \in C11_Enclosing
   /\ \E i \in 1..Len(Node(tc_out.expr).kids) :
        AbsentSubExpr(Kid(tc_out.expr, i)))
  => tc_status = "running"

\* C12: in a function declared to return u8, Resolve of the if/else in
\* final position with branches typed u8 and u8 records and returns u8; with
\* one branch typed bool it reports the mismatch, returns, and records
\* nothing for the if/else.  Resolve of the if/else that is not in final
\* position resolves both branches and records Unit, whatever their types.
C12_FinalIfElseCombinesBranches ==
  (/\ tc_out.expr \in {160, 260}
   /\ prog.ret = "u8" /\ prog.L \in {"u8", "bool"} /\ prog.R \in {"u8", "bool"})
  => /\ tc_status = "running"
     /\ tc_out.expr = 260 /\ prog.L = "u8" /\ prog.R = "u8" =>
          /\ tc_out.ty = Builtin("u8")
          /\ 260 \in DOMAIN resolved /\ resolved[260] = Builtin("u8")
     /\ tc_out.expr = 260 /\ "bool" \in {prog.L, prog.R} =>
          /\ tc_out.nd >= 1
          /\ tc_out.ty = Null
          /\ 260 \notin DOMAIN resolved
     /\ tc_out.expr = 160 =>
          /\ tc_out.ty.kind = "Unit"
          /\ {160, 162, 163, 164, 165} \subseteq DOMAIN resolved
          /\ resolved[160].kind = "Unit"

\* the type a well-typed leaf resolves to
LeafType(k) ==
  CASE k = "int" -> Builtin("i32")
    [] k = "x_i32" -> Builtin("i32")
    [] k = "u8" -> Builtin("u8")
    [] k = "f64" -> Builtin("f64")
    [] k = "bool" -> Builtin("bool")
    [] k = "x_infer" -> Ty("Infer", 0, DeclInfer)

\* C13: Resolve of an index expression whose index is i32-typed returns and
\* records the element type when the indexed expression has an array type
\* (f64 for the declared Array{f64, 4}; the element type of an array
\* literal); when the indexed expression has any other type the pass ends
\* in a fatal error and nothing is recorded for the index expression.
C13_IndexYieldsElementType ==
  (tc_out.expr \in {180, 240} /\ prog.R \in {"int", "x_i32"}) =>
    /\ tc_out.expr = 180 /\ prog.L = "x_arr" =>
         /\ tc_status = "running"
         /\ TyEq(tc_out.ty, Builtin("f64"))
         /\ 180 \in DOMAIN resolved /\ TyEq(resolved[180], Builtin("f64"))
    /\ tc_out.expr = 180 /\ prog.L \in {"int", "x_i32", "u8", "f64", "bool", "x_infer"} =>
         /\ tc_status = "fatal"
         /\ tc_out.ty = Null
         /\ 180 \notin DOMAIN resolved
    /\ tc_out.expr = 240 /\ prog.L \in {"int", "x_i32", "u8", "f64", "bool"} =>
         /\ tc_status = "running"
         /\ TyEq(tc_out.ty, LeafType(prog.L))
         /\ 240 \in DOMAIN resolved /\ TyEq(resolved[240], LeafType(prog.L))

\* the declared Array{f64, 4} was indexed by an i32 and f64 recorded
C13_Witness ==
  /\ tc_out.expr = 180 /\ tc_status = "running"
  /\ prog.L = "x_arr" /\ prog.R = "x_i32"
  /\ resolved[180].kind = "Float" /\ resolved[180].w = 64

\* combine, absent when an operand is
CombineOrNull(a, b) == IF a = Null \/ b = Null THEN Null ELSE Combine(a, b)

\* the left fold of combine over the types of the three elements of the
\* array literal e, all leaves that resolve to a type
FoldOfElems(e) ==
  CombineOrNull(CombineOrNull(LeafType(LeafKind(Kid(e, 1))),
                              LeafType(LeafKind(Kid(e, 2)))),
                LeafType(LeafKind(Kid(e, 3))))

\* C14: Resolve of an array literal of three typed elements returns and
\* records Array{t, 3}, t the left fold of combine over the element types
\* in order, when that fold succeeds ([T, T, T] gives T); when the fold
\* fails at the last element ([i32, i32, f64]) a diagnostic is reported and
\* no type is recorded for the literal.
C14_ArrayLiteralFoldsCombine ==
  (/\ tc_out.expr \in {190, 270}
   /\ prog.L \in {"int", "x_i32", "u8", "f64", "bool", "x_infer"}
   /\ prog.R \in {"int", "x_i32", "u8", "f64", "bool"})
  => /\ FoldOfElems(tc_out.expr) # Null =>
          /\ tc_status = "running"
          /\ TyEq(tc_out.ty, ArrayType(tc_out.expr, 3, FoldOfElems(tc_out.expr)))
          /\ tc_out.expr \in DOMAIN resolved
          /\ TyEq(resolved[tc_out.expr], tc_out.ty)
     /\ prog.L = prog.R => TyEq(FoldOfElems(tc_out.expr), LeafType(prog.L))
     /\ tc_out.expr = 270 /\ FoldOfElems(270) = Null =>
          /\ tc_out.nd >= 1
          /\ tc_out.ty = Null
          /\ 270 \notin DOMAIN resolved

\* [i32, i32, f64] was resolved: reported, nothing recorded for the literal
\* while its elements have their types
C14_Witness ==
  /\ tc_out.expr = 270 /\ prog.L = "int" /\ prog.R = "f64"
  /\ tc_out.nd = 1 /\ 270 \notin DOMAIN resolved
  /\ {271, 272, 273} \subseteq DOMAIN resolved
  /\ resolved[273].kind = "Float"

\* C15: in every state of a running pass, a composite expression with a
\* recorded type has a recorded type for each direct sub-expression that has
\* a type (operands, condition, branches, array elements, index and indexed
\* array expression).
C15_SubExpressionsRecordedFirst ==
  tc_status = "running" =>
    \A e \in ExprIds :
      e \in DOMAIN resolved =>
        \A i \in 1..Len(Node(e).kids) :
          ~AbsentSubExpr(Kid(e, i)) => Kid(e, i) \in DOMAIN resolved

LookupFails(e) ==
  \/ e = 111 /\ prog.L \in {"x_unresolved", "x_nodef", "x_norev", "x_notype"}
  \/ e = 210 /\ prog.L \in {"x_unresolved", "x_norev", "x_notype"}

\* C16: resolving a Call or Identifier expression one of whose lookups fails
\* (name, definition, node-to-IR mapping, type of the declaration) reports
\* exactly one diagnostic, yields no type, writes nothing to the type table
\* and leaves the pass running.
C16_LookupFailureIsRecoverable ==
  LookupFails(tc_out.expr) =>
    /\ tc_out.nd = 1
    /\ tc_out.ty = Null
    /\ tc_out.writes = <<>>
    /\ tc_out.expr \notin DOMAIN resolved
    /\ tc_status = "running"

C16_Witness ==
  /\ LookupFails(tc_out.expr)
  /\ tc_out.nd = 1
  /\ tc_status = "running"

AssignmentResolved(e) ==
  /\ tc_out.expr = e
  /\ tc_status = "running"
  /\ Node(e).kind = "AssignmentExpr"

\* C17: when Resolve of an assignment has returned a type, the type recorded
\* for the lhs is the combined type, which replaces the one Resolve of the
\* lhs recorded, and is the type recorded for the assignment itself.
C17_AssignmentOverwritesLhs ==
  AssignmentResolved(110) =>
    LET w == tc_out.writes
    IN /\ tc_out.ty # Null
       /\ Len(w) = 4
       /\ w[1][1] = 111 /\ w[2][1] = 112
       /\ TyEq(tc_out.ty, Combine(w[1][2], w[2][2]))
       /\ w[3] = <<111, tc_out.ty>>
       /\ w[4] = <<110, tc_out.ty>>
       /\ 111 \in DOMAIN resolved /\ 110 \in DOMAIN resolved
       /\ resolved[111] = tc_out.ty
       /\ resolved[110] = resolved[111]

C17_Witness ==
  /\ AssignmentResolved(110)
  /\ prog.L = "x_infer" /\ prog.R = "int"
  /\ TyEq(resolved[111], Builtin("i32"))

\* the innermost element of a type and the array levels around it
RECURSIVE InnermostType(_), ArrayLevels(_)
InnermostType(ty) ==
  IF ty.kind = "Array" THEN InnermostType(ty.elem[1]) ELSE ty

ArrayLevels(ty) ==
  IF ty.kind = "Array"
  THEN <<"array_type", ty.cap>> \o ArrayLevels(ty.elem[1]) ELSE <<>>

\* C18: compile (ctx, ty) leaves the compiled-type cache as it is; a nominal
\* type yields the cached type of its identity and a miss is fatal; an array
\* yields a new array type of the compiled element with the capacity as its
\* length, and is fatal when the element is; the other variants are fatal.
C18_CompileByVariant ==
  [][ret'.op = "compile" =>
       LET ty == ret'.arg
           el == InnermostType(ty)
       IN /\ compiled_type_map' = compiled_type_map
          /\ IF el.kind \in NominalKinds /\ el.ref \in DOMAIN compiled_type_map
             THEN /\ status' = "running"
                  /\ ret'.val = ArrayLevels(ty) \o <<compiled_type_map[el.ref]>>
             ELSE status' = "fatal"]_vars

C18_Witness ==
  /\ ret.op = "compile"
  /\ ret.arg.kind = "Array" /\ ret.arg.elem[1].kind = "Array"
  /\ status = "running"
  /\ Len(ret.val) = 5

\* C19: add_statement (stmt) with a block open appends stmt to the pending
\* statements of the innermost open block; the pending statements of the
\* enclosing blocks, the scope stack, the function stack and the four caches
\* stay as they are.
C19_AddStatementFrame ==
  [][(ret'.op = "add_statement" /\ statements # <<>>) =>
       /\ Len(statements') = Len(statements)
       /\ Back(statements') = Append(Back(statements), ret'.arg)
       /\ \A i \in 1..(Len(statements) - 1) : statements'[i] = statements[i]
       /\ scope_stack' = scope_stack
       /\ fn_stack' = fn_stack
       /\ compiled_type_map' = compiled_type_map
       /\ compiled_var_decls' = compiled_var_decls
       /\ compiled_fn_map' = compiled_fn_map
       /\ compiled_consts' = compiled_consts
       /\ status' = "running"]_vars

C19_Witness ==
  /\ ret.op = "add_statement"
  /\ status = "running"
  /\ Len(statements) = 2
  /\ statements[1] = <<>>
  /\ statements[2] = <<ret.arg>>

\* a step leaves list v alone or appends one element to it
AppendOnly(v, w) == w = v \/ (Len(w) = Len(v) + 1 /\ SubSeq(w, 1, Len(v)) = v)

\* C20: the four declaration lists only grow, by one element at their end per
\* push, duplicates included; write_to_backend makes one call with the four
\* lists as they are and leaves them as they are, so a second call hands over
\* the same declarations; a function that function_completed finds stays
\* found.
C20_DeclListsAppendOnly ==
  [][/\ AppendOnly(type_decls, type_decls')
     /\ AppendOnly(var_decls, var_decls')
     /\ AppendOnly(const_decls, const_decls')
     /\ AppendOnly(func_decls, func_decls')
     /\ ret'.op = "push_type" => type_decls' = Append(type_decls, ret'.arg)
     /\ ret'.op = "push_var" => var_decls' = Append(var_decls, ret'.arg)
     /\ ret'.op = "push_const" => const_decls' = Append(const_decls, ret'.arg)
     /\ ret'.op = "push_function" => func_decls' = Append(func_decls, ret'.arg)
     /\ ret'.op = "write_to_backend" =>
          /\ Len(backend_out') = 1
          /\ backend_out'[1].call = "write_global_definitions"
          /\ backend_out'[1].type_decls = type_decls
          /\ backend_out'[1].const_decls = const_decls
          /\ backend_out'[1].func_decls = func_decls
          /\ backend_out'[1].var_decls = var_decls
          /\ UNCHANGED <<type_decls, var_decls, const_decls, func_decls>>
          /\ ret.op = "write_to_backend" => backend_out' = backend_out
     /\ \A fn \in Bfunctions :
          FunctionCompletedFrom(1, fn) => FunctionCompletedFrom(1, fn)'
     /\ (ret.op = "function_completed" /\ ret.val
           /\ ret'.op = "function_completed" /\ ret'.arg = ret.arg)
          => ret'.val]_vars

C20_Witness ==
  /\ ret.op = "write_to_backend"
  /\ func_decls = <<"f2", "f2">>
  /\ type_decls = <<"t2">>
  /\ backend_out = <<WriteGlobalDefinitions(<<"t2">>, <<>>, <<"f2", "f2">>, <<>>)>>

====
